---- MODULE Spec2Model ----
\* A state-machine model of the thermal-conductivity driver
\* (anharmonic/phonon3/conductivity.py, class Conductivity) and of the
\* properties its specification states about it.
EXTENDS Integers, Sequences, FiniteSets, TLC

\* ---------------------------------------------------------------------------
\* Bounds of the model
\* ---------------------------------------------------------------------------
\* longest explicit grid-point list handed to initialize()
MaxExplicit == 2
\* largest weight the irreducible-point enumeration reports for one point
MaxWeight == 2
\* disturbing events in one behaviour: initialize() calls, set_gamma() calls
\* and injected kernel failures
MaxEvents == 2

\* ---------------------------------------------------------------------------
\* Encodings of Python values
\* ---------------------------------------------------------------------------
\* None where an integer is expected (grid_point_count, sum_num_kstar)
NoneInt == -1
\* sigma = None: the tetrahedron-method sentinel
SigmaNone == -1
\* None where a list / 1-d array is expected (grid_points, grid_weights,
\* coarse_mesh_shifts, the mesh_divisors argument); real entries are >= 0
NoneSeq == <<-1>>
\* the value every entry of an externally supplied gamma array holds
ExternalValue == 7

RECURSIVE SumSeq(_)
SumSeq(s) ==
    IF s = <<>> THEN 0 ELSE Head(s) + SumSeq(Tail(s))

Prod3(m) ==
    m[1] * m[2] * m[3]

RECURSIVE Concat(_)
\* flattens a sequence of sequences
Concat(ss) ==
    IF ss = <<>> THEN <<>> ELSE Head(ss) \o Concat(Tail(ss))

\* Python truthiness of a smearing width: `not sigma` holds for None and for 0
Falsy(sigma) ==
    sigma = SigmaNone \/ sigma = 0

\* ---------------------------------------------------------------------------
\* numpy arrays: a shape and the entries, indexed from 0.  The trailing band
\* axis (and the 3 / 6 Cartesian components of gv / kappa) carry one value per
\* leading index here: no operation of the driver addresses inside them.
\* ---------------------------------------------------------------------------
Indices(shape) ==
    IF Len(shape) = 1 THEN {<<a>> : a \in 0..(shape[1] - 1)}
    ELSE IF Len(shape) = 2
         THEN {<<a, b>> : a \in 0..(shape[1] - 1), b \in 0..(shape[2] - 1)}
         ELSE {<<a, b, c>> : a \in 0..(shape[1] - 1), b \in 0..(shape[2] - 1),
                             c \in 0..(shape[3] - 1)}

\* np.zeros(shape) / an array filled with one value
Filled(shape, v) ==
    [shape |-> shape, data |-> [x \in Indices(shape) |-> v]]

Zeros(shape) ==
    Filled(shape, 0)

\* an attribute that holds None (or was never assigned) instead of an array
NoneArray ==
    [shape |-> <<-1>>, data |-> [x \in {} |-> 0]]

InRange(arr, idx) ==
    idx \in DOMAIN arr.data

\* arr[idx] = v for an index inside the array
SetAt(arr, idx, v) ==
    [arr EXCEPT !.data = [arr.data EXCEPT ![idx] = v]]

\* length of the grid-point axis: axis 1 of kappa, gamma, gamma_iso; axis 0 of gv, cv
GridDim(arr, axis) ==
    IF arr = NoneArray THEN NoneInt ELSE arr.shape[axis + 1]

\* ---------------------------------------------------------------------------
\* Mesh numbers (Conductivity._set_mesh_numbers).  Shift flags are 0 / 1.
\* ---------------------------------------------------------------------------
\* EffectiveDivisor without the fallback: the requested divisor whatever it is
EffectiveDivisorKept(m, n) ==
    n

\* the divisor kept for one axis: the requested one if it divides the mesh number
EffectiveDivisor(m, n) ==
    IF m % n = 0 THEN n ELSE 1

\* SetMeshDivisors with one test for the three axes: all fall back if one does
SetMeshDivisorsAllOrNothing(mesh, req_divisors) ==
    IF req_divisors = NoneSeq THEN <<1, 1, 1>>
    ELSE IF \A i \in 1..3 : mesh[i] % req_divisors[i] = 0 THEN req_divisors
    ELSE <<1, 1, 1>>

SetMeshDivisors(mesh, req_divisors) ==
    IF req_divisors = NoneSeq THEN <<1, 1, 1>>
    ELSE [i \in 1..3 |-> EffectiveDivisor(mesh[i], req_divisors[i])]

\* SetCoarseMeshShifts testing the parity of the requested divisor instead of
\* the one in effect
SetCoarseMeshShiftsRequested(mesh, req_divisors, req_shifts) ==
    IF req_divisors = NoneSeq THEN NoneSeq
    ELSE LET s == IF req_shifts = NoneSeq THEN <<0, 0, 0>> ELSE req_shifts
         IN  [i \in 1..3 |-> IF s[i] # 0 /\ req_divisors[i] % 2 # 0 THEN 0 ELSE s[i]]

\* coarse_mesh_shifts stays None when no divisors are given; otherwise a shift
\* along an axis whose divisor is odd is set to False
SetCoarseMeshShifts(mesh, req_divisors, req_shifts) ==
    IF req_divisors = NoneSeq THEN NoneSeq
    ELSE LET d == SetMeshDivisors(mesh, req_divisors)
             s == IF req_shifts = NoneSeq THEN <<0, 0, 0>> ELSE req_shifts
         IN  [i \in 1..3 |-> IF s[i] # 0 /\ d[i] % 2 # 0 THEN 0 ELSE s[i]]

\* self._mesh / self._mesh_divisors on integer arrays (Python 2: floor division)
CoarseMeshOf(mesh, divisors) ==
    [i \in 1..3 |-> mesh[i] \div divisors[i]]

\* ---------------------------------------------------------------------------
\* Grid utilities imported from anharmonic.phonon3.triplets
\* ---------------------------------------------------------------------------
\* get_grid_address: the mesh coordinates of grid-point index g (first axis fastest)
GridAddress(mesh, g) ==
    <<g % mesh[1], (g \div mesh[1]) % mesh[2], g \div (mesh[1] * mesh[2])>>

GridIndex(mesh, addr) ==
    (addr[1] % mesh[1]) + (addr[2] % mesh[2]) * mesh[1]
        + (addr[3] % mesh[3]) * mesh[1] * mesh[2]

ShiftsOrZero(shifts) ==
    IF shifts = NoneSeq THEN <<0, 0, 0>> ELSE shifts

\* from_coarse_to_dense_grid_points: the fine-mesh index of each coarse point
FromCoarseToDense(mesh, divisors, coarse_points, shifts) ==
    LET cm == CoarseMeshOf(mesh, divisors)
        sh == ShiftsOrZero(shifts)
        dense(cg) ==
            LET cga == GridAddress(cm, cg)
            IN  GridIndex(mesh, [a \in 1..3 |->
                    cga[a] * divisors[a] + sh[a] * (divisors[a] \div 2)])
    IN  [p \in 1..Len(coarse_points) |-> dense(coarse_points[p])]

\* whether fine-mesh point g lies on the (shifted) coarse grid
OnCoarseGrid(mesh, divisors, shifts, g) ==
    LET sh == ShiftsOrZero(shifts)
        ga == GridAddress(mesh, g)
    IN  \A a \in 1..3 :
            (ga[a] - sh[a] * (divisors[a] \div 2)) % divisors[a] = 0

RECURSIVE SelectSeq2(_, _, _, _)
SelectSeq2(s, mesh, divisors, shifts) ==
    IF s = <<>> THEN <<>>
    ELSE (IF OnCoarseGrid(mesh, divisors, shifts, Head(s)) THEN <<Head(s)>> ELSE <<>>)
             \o SelectSeq2(Tail(s), mesh, divisors, shifts)

\* reduce_grid_points: the requested points that lie on the coarse grid, in order
ReduceGridPoints(mesh, divisors, shifts, points) ==
    SelectSeq2(points, mesh, divisors, shifts)

\* a requested point outside the fine mesh makes the selector fail
SelectorFails(mesh, points) ==
    \E p \in 1..Len(points) : points[p] >= Prod3(mesh)

StrictlyIncreasing(s) ==
    \A p \in 1..(Len(s) - 1) : s[p] < s[p + 1]

\* the explicit grid-point lists tried: increasing lists of fine-mesh
\* indices, and one list that names a point outside the mesh
ExplicitInputs(mesh) ==
    {s \in UNION {[1..k -> 0..(Prod3(mesh) - 1)] : k \in 0..MaxExplicit} :
        StrictlyIncreasing(s)}
    \cup {<<Prod3(mesh)>>}

\* get_ir_grid_points: what the irreducible-point enumeration may hand back for
\* a coarse mesh: points from index 0 on, with a weight each.  A sound symmetry
\* table gives weights that sum to the coarse mesh size; a broken one does not.
IrResults(coarse_mesh) ==
    UNION {{[points |-> [p \in 1..k |-> p - 1], weights |-> w] :
                w \in [1..k -> 1..MaxWeight]} : k \in 1..Prod3(coarse_mesh)}

\* ---------------------------------------------------------------------------
\* The external kernels.  Each is a black box with a configuration; what run()
\* leaves to be read is a function of the configuration at the time of run().
\* ---------------------------------------------------------------------------
\* temperatures in K, in the order given to the constructor
TemperaturesTried ==
    <<0, 300>>

\* result of ImagSelfEnergy.run() for a grid point, smearing width and temperature
ImagSelfEnergyValue(gp, sigma, t) ==
    100000 + 10000 * (gp + 1) + 1000 * (sigma + 2) + t

\* result of Isotope.run() for the grid point and smearing width it was given
IsotopeValue(gp, sigma) ==
    200000 + 10000 * (gp + 1) + 1000 * (sigma + 2)

\* the contribution written to kappa from a linewidth entry (section 4.5 of
\* the specification); never 0
KappaValue(g) ==
    300000 + (g % 100000)

\* a kernel that has never been configured
IseFresh ==
    [gp |-> NoneInt, sigma |-> NoneInt - 1, temp |-> NoneInt, iw |-> FALSE,
     result |-> 0]

IsoFresh ==
    [gp |-> NoneInt, sigma |-> NoneInt - 1, phonons |-> FALSE, result |-> 0]

\* ---------------------------------------------------------------------------
\* The per-point computation as the sequence of calls it makes.  A call is
\* [op, j, k]: j the index of the smearing width and k of the temperature it
\* belongs to.  cfg holds what the computation only reads: sigmas,
\* temperatures, grid_points, grid_weights, read_gamma, isotope.
\* ---------------------------------------------------------------------------
Call(name, j, k) ==
    [op |-> name, j |-> j, k |-> k]

\* Conductivity._set_gamma_at_sigmas: per smearing width set_sigma, the
\* integration weights if `not sigma`, then per temperature set_temperature,
\* run, the read of the result and its store into gamma[j, i, k]
SetGammaAtSigmasCalls(cfg) ==
    Concat([jj \in 1..Len(cfg.sigmas) |->
        <<Call("ise.set_sigma", jj - 1, 0)>>
        \o (IF Falsy(cfg.sigmas[jj])
            THEN <<Call("ise.set_integration_weights", jj - 1, 0)>>
            ELSE <<>>)
        \o Concat([kk \in 1..Len(cfg.temperatures) |->
            <<Call("ise.set_temperature", jj - 1, kk - 1),
              Call("ise.run", jj - 1, kk - 1),
              Call("ise.get_imag_self_energy", jj - 1, kk - 1),
              Call("gamma[j,i,k]=", jj - 1, kk - 1)>>])])

\* Conductivity._set_gamma_isotope_at_sigmas: per smearing width get_phonons,
\* set_sigma, set_phonons, set_grid_point, run, the read of the result and its
\* store into gamma_iso[j, i]
SetGammaIsotopeAtSigmasCalls(cfg) ==
    Concat([jj \in 1..Len(cfg.sigmas) |->
        <<Call("pp.get_phonons", jj - 1, 0),
          Call("iso.set_sigma", jj - 1, 0),
          Call("iso.set_phonons", jj - 1, 0),
          Call("iso.set_grid_point", jj - 1, 0),
          Call("iso.run", jj - 1, 0),
          Call("iso.get_gamma", jj - 1, 0),
          Call("gamma_iso[j,i]=", jj - 1, 0)>>])

\* the per-point processing that next() invokes (section 4.4 of the
\* specification): the linewidths unless gamma was supplied, the isotope
\* linewidths if isotope scattering is configured, then the kappa contribution
RunAtGridPointCalls(cfg) ==
    <<Call("grid_point", 0, 0)>>
    \o (IF cfg.read_gamma THEN <<>>
        ELSE <<Call("ise.set_grid_point", 0, 0)>> \o SetGammaAtSigmasCalls(cfg))
    \o (IF cfg.isotope THEN SetGammaIsotopeAtSigmasCalls(cfg) ELSE <<>>)
    \o <<Call("kappa", 0, 0)>>

\* the kernel calls at which a kernel failure is injected
FailableCalls ==
    {"ise.run", "iso.run"}

\* the weight of the i-th selected point; 1 where no weight is attached to it
WeightAt(cfg, i) ==
    IF cfg.grid_weights = NoneSeq \/ i + 1 > Len(cfg.grid_weights) THEN 1
    ELSE cfg.grid_weights[i + 1]

\* the write arr[idx] = v, with the error numpy / Python raises otherwise
Store(st, field, idx, v) ==
    IF st[field] = NoneArray THEN [st EXCEPT !.err = "TypeError"]
    ELSE IF ~InRange(st[field], idx) THEN [st EXCEPT !.err = "IndexError"]
    ELSE [st EXCEPT ![field] = SetAt(st[field], idx, v)]

Logged(st, name, arg) ==
    [st EXCEPT !.klog = Append(st.klog, <<name, arg>>)]

\* the kappa contribution of position i for every smearing width and
\* temperature, read from gamma[j, i, k]
SetKappaAtSigmas(cfg, st, i) ==
    LET jk == {<<j, i, k>> : j \in 0..(Len(cfg.sigmas) - 1),
                             k \in 0..(Len(cfg.temperatures) - 1)}
    IN  IF st.gamma = NoneArray \/ st.kappa = NoneArray
        THEN [st EXCEPT !.err = "TypeError"]
        ELSE IF \E x \in jk : ~InRange(st.gamma, x) \/ ~InRange(st.kappa, x)
        THEN [st EXCEPT !.err = "IndexError"]
        ELSE [st EXCEPT
                 !.kappa = [st.kappa EXCEPT !.data = [x \in DOMAIN st.kappa.data |->
                     IF x \in jk THEN KappaValue(st.gamma.data[x])
                     ELSE st.kappa.data[x]]],
                 !.sum_num_kstar = st.sum_num_kstar + WeightAt(cfg, i)]

\* GammaIndex with the position index dropped: every point stored at position 0
GammaIndexFixed(c, i) ==
    <<c.j, 0, c.k>>

\* where the linewidths of position i are stored
GammaIndex(c, i) ==
    <<c.j, i, c.k>>

GammaIsoIndex(c, i) ==
    <<c.j, i>>

\* the effect of one call of the computation for position i on the mutable
\* state st: gamma, gamma_iso, kappa, sum_num_kstar, the two kernels, the call
\* log klog, ret (the value the latest read returned, local to the
\* computation) and err ("ok" until something is raised)
Exec(cfg, st, c, i) ==
    CASE c.op = "grid_point" ->
            IF i = NoneInt THEN [st EXCEPT !.err = "TypeError"]
            ELSE IF i + 1 > Len(cfg.grid_points)
            THEN [st EXCEPT !.err = "IndexError"]
            ELSE st
      [] c.op = "ise.set_grid_point" ->
            Logged([st EXCEPT !.ise.gp = cfg.grid_points[i + 1]],
                   c.op, cfg.grid_points[i + 1])
      [] c.op = "ise.set_sigma" ->
            Logged([st EXCEPT !.ise.sigma = cfg.sigmas[c.j + 1]],
                   c.op, cfg.sigmas[c.j + 1])
      [] c.op = "ise.set_integration_weights" ->
            Logged([st EXCEPT !.ise.iw = TRUE], c.op, 0)
      [] c.op = "ise.set_temperature" ->
            Logged([st EXCEPT !.ise.temp = cfg.temperatures[c.k + 1]],
                   c.op, cfg.temperatures[c.k + 1])
      [] c.op = "ise.run" ->
            Logged([st EXCEPT !.ise.result =
                       ImagSelfEnergyValue(st.ise.gp, st.ise.sigma, st.ise.temp)],
                   c.op, 0)
      [] c.op = "ise.get_imag_self_energy" ->
            Logged([st EXCEPT !.ret = st.ise.result], c.op, 0)
      [] c.op = "gamma[j,i,k]=" ->
            Store(st, "gamma", GammaIndex(c, i), st.ret)
      [] c.op = "pp.get_phonons" ->
            Logged(st, c.op, 0)
      [] c.op = "iso.set_sigma" ->
            Logged([st EXCEPT !.iso.sigma = cfg.sigmas[c.j + 1]],
                   c.op, cfg.sigmas[c.j + 1])
      [] c.op = "iso.set_phonons" ->
            Logged([st EXCEPT !.iso.phonons = TRUE], c.op, 0)
      [] c.op = "iso.set_grid_point" ->
            Logged([st EXCEPT !.iso.gp = i], c.op, i)
      [] c.op = "iso.run" ->
            Logged([st EXCEPT !.iso.result = IsotopeValue(st.iso.gp, st.iso.sigma)],
                   c.op, 0)
      [] c.op = "iso.get_gamma" ->
            Logged([st EXCEPT !.ret = st.iso.result], c.op, 0)
      [] c.op = "gamma_iso[j,i]=" ->
            Store(st, "gamma_iso", GammaIsoIndex(c, i), st.ret)
      [] c.op = "kappa" ->
            SetKappaAtSigmas(cfg, st, i)

\* a kernel call that raises: it was made, and nothing after it is
Raise(st, c) ==
    [Logged(st, c.op, 0) EXCEPT !.err = "KernelError"]

RECURSIVE ExecFrom(_, _, _, _, _, _)
\* the calls prog[p..] for position i, in order, until one raises; f is the
\* index of the call at which the kernel fails (0: none does)
ExecFrom(cfg, st, prog, p, f, i) ==
    IF p > Len(prog) \/ st.err # "ok" THEN st
    ELSE IF p = f THEN Raise(st, prog[p])
    ELSE ExecFrom(cfg, Exec(cfg, st, prog[p], i), prog, p + 1, f, i)

\* _run_at_grid_point for position i
RunAtGridPoint(cfg, st, i, f) ==
    ExecFrom(cfg, st, RunAtGridPointCalls(cfg), 1, f, i)

\* the indices of the calls of the per-point processing that may fail
FailPoints(cfg) ==
    {p \in 1..Len(RunAtGridPointCalls(cfg)) :
        RunAtGridPointCalls(cfg)[p].op \in FailableCalls}

\* ---------------------------------------------------------------------------
\* The geometry reader of the FHI-aims interface (read_aims)
\* ---------------------------------------------------------------------------
\* the longest geometry file tried
MaxLines == 4

\* the lines tried, each split into its fields: a blank line, a lattice
\* vector, an atom in cartesian and in fractional coordinates, a line whose
\* keyword only begins with "atom", an initial moment, and constraints with
\* the arguments ".true." and ".false." and with no argument
GeometryLines ==
    {<<>>,
     <<"lattice_vector", "1", "0", "0">>,
     <<"atom", "0", "0", "1", "H">>,
     <<"atom_frac", "0", "1", "0", "He">>,
     <<"atoms", "1", "0", "0", "Li">>,
     <<"initial_moment", "1">>,
     <<"constrain_relaxation", ".true.">>,
     <<"constrain_relaxation", ".false.">>,
     <<"constrain_relaxation">>}

\* the files of at most MaxLines lines
GeometryFiles ==
    UNION {[1..n -> GeometryLines] : n \in 0..MaxLines}

\* s[a:b] of Python, on a list or a string
PySlice(s, a, b) ==
    SubSeq(s, a + 1, IF b < Len(s) THEN b ELSE Len(s))

\* the strings float() converts, with their values
FloatTable ==
    {<<"0", 0>>, <<"1", 1>>}

IsFloat(s) ==
    \E p \in FloatTable : p[1] = s

Float(s) ==
    (CHOOSE p \in FloatTable : p[1] = s)[2]

\* lmap(float, lis): whether it raises ValueError, and the list it returns
LmapFloatFails(lis) ==
    \E i \in 1..Len(lis) : ~IsFloat(lis[i])

LmapFloat(lis) ==
    [i \in 1..Len(lis) |-> Float(lis[i])]

\* a local variable not assigned yet; an assigned one is <<value>>
Unbound == <<>>

\* read_aims before its loop
Locals(lines) ==
    [lines |-> lines, nread |-> 0,
     cell |-> <<>>, is_frac |-> <<>>, positions |-> <<>>, symbols |-> <<>>,
     magmoms |-> <<>>, constraints |-> <<>>,
     constrain_warning |-> TRUE, frac |-> Unbound,
     reduced_symbols |-> <<>>, status |-> "reading"]

\* read_aims has not been called
NotReading ==
    [Locals(<<>>) EXCEPT !.status = "-"]

\* the exception exc leaves read_aims
RaiseIn(st, exc) ==
    [st EXCEPT !.status = exc]

\* whether the branch for atoms takes the line: its keyword begins with "atom"
IsAtomLine(fields) ==
    PySlice(fields[1], 0, 4) = "atom"

\* the branch for atoms
ReadAtom(st, fields) ==
    LET frac == IF fields[1] = "atom" THEN <<FALSE>>
                ELSE IF fields[1] = "atom_frac" THEN <<TRUE>>
                ELSE st.frac
        st1 == [st EXCEPT !.frac = frac]
    IN  IF LmapFloatFails(PySlice(fields, 1, 4)) THEN RaiseIn(st1, "ValueError")
        ELSE IF Len(fields) < 5 THEN RaiseIn(st1, "IndexError")
        ELSE IF frac = Unbound THEN RaiseIn(st1, "UnboundLocalError")
        ELSE [st1 EXCEPT !.is_frac = Append(@, frac[1]),
                         !.positions = Append(@, LmapFloat(PySlice(fields, 1, 4))),
                         !.symbols = Append(@, fields[5]),
                         !.magmoms = Append(@, NoneInt),
                         !.constraints = Append(@, FALSE),
                         !.constrain_warning = FALSE]

\* the branch for initial_moment
ReadInitialMoment(st, fields) ==
    IF Len(fields) < 2 THEN RaiseIn(st, "IndexError")
    ELSE IF ~IsFloat(fields[2]) THEN RaiseIn(st, "ValueError")
    ELSE IF Len(st.magmoms) = 0 THEN RaiseIn(st, "IndexError")
    ELSE [st EXCEPT !.magmoms[Len(st.magmoms)] = Float(fields[2])]

\* the branch for constrain_relaxation
ReadConstrainRelaxation(st, fields) ==
    IF st.constrain_warning THEN RaiseIn(st, "RuntimeError")
    ELSE IF Len(fields) < 2 THEN RaiseIn(st, "IndexError")
    ELSE IF Len(st.constraints) = 0 THEN
        IF fields[2] = ".true." THEN RaiseIn(st, "IndexError")
        ELSE [st EXCEPT !.constrain_warning = TRUE]
    ELSE [st EXCEPT !.constraints[Len(st.constraints)] = (fields[2] = ".true.") \/ @,
                    !.constrain_warning = TRUE]

\* the body of the loop over the lines, for one line
ReadLine(st, fields) ==
    IF Len(fields) = 0 THEN st
    ELSE IF fields[1] = "lattice_vector" THEN
        IF LmapFloatFails(PySlice(fields, 1, 4)) THEN RaiseIn(st, "ValueError")
        ELSE [st EXCEPT !.cell = Append(@, LmapFloat(PySlice(fields, 1, 4)))]
    ELSE IF IsAtomLine(fields) THEN ReadAtom(st, fields)
    ELSE IF fields[1] = "initial_moment" THEN ReadInitialMoment(st, fields)
    ELSE IF fields[1] = "constrain_relaxation" THEN ReadConstrainRelaxation(st, fields)
    ELSE st

\* whether the conversion of the fractional positions can index the cell
CellIndexable(st) ==
    /\ Len(st.cell) >= 3
    /\ \A l \in 1..3 : Len(st.cell[l]) >= 3

\* the cartesian position of the fractional position pos
FromFractional(st, pos) ==
    [i \in 1..3 |-> pos[1] * st.cell[1][i] + pos[2] * st.cell[2][i]
                    + pos[3] * st.cell[3][i]]

\* lis[~constraints]: the entries of lis whose atom is not constrained
RECURSIVE Unconstrained(_, _)
Unconstrained(lis, constraints) ==
    IF lis = <<>> THEN <<>>
    ELSE (IF Head(constraints) THEN <<>> ELSE <<Head(lis)>>)
             \o Unconstrained(Tail(lis), Tail(constraints))

\* read_aims after its loop: fractional positions become cartesian and the
\* unconstrained atoms are selected; the complement of the array made of an
\* empty list of constraints is a TypeError; the Atoms objects returned are
\* built from these lists
ReturnAtoms(st) ==
    IF (\E n \in 1..Len(st.is_frac) : st.is_frac[n]) /\ ~CellIndexable(st)
    THEN RaiseIn(st, "IndexError")
    ELSE IF Len(st.constraints) = 0 THEN RaiseIn(st, "TypeError")
    ELSE [st EXCEPT !.positions =
                        [n \in 1..Len(st.positions) |->
                            IF st.is_frac[n] THEN FromFractional(st, st.positions[n])
                            ELSE st.positions[n]],
                    !.reduced_symbols =
                        Unconstrained(st.symbols, st.constraints),
                    !.status = "returned"]

\* ---------------------------------------------------------------------------
\* State of the driver
\* ---------------------------------------------------------------------------
VARIABLES
    \* fixed by the constructor; request: the mesh_divisors and
    \* coarse_mesh_shifts arguments it was given
    mesh, mesh_divisors, coarse_mesh, coarse_mesh_shifts, no_kappa_stars,
    sigmas, temperatures, isotope, request,
    \* attributes changed by initialize(), next(), run() and set_gamma()
    grid_points, grid_weights, grid_point_count, sum_num_kstar,
    gamma, read_gamma, kappa, gv, cv, gamma_iso,
    \* the kernels: self-energy, isotope, and the points the phonon kernel holds
    ise, iso, pp_phonon,
    \* history: kernel calls and per-point processings invoked / completed since
    \* the latest initialize() began, the latest call and how it ended, whether
    \* the latest initialize() completed, whether only next() / run() without a
    \* failure followed it, the state it left, the array given to set_gamma()
    klog, visited, completed, last, init_ok, clean, snap, gamma_supplied,
    \* the number of disturbing events so far
    nevents,
    \* two workers sharing the driver (section 5 of the specification): per
    \* worker its position, the call it is at and the value it last read; and
    \* which worker began, and whether one ever ran inside the other's step
    workers, sched,
    \* the local variables of read_aims (the geometry reader of the FHI-aims
    \* interface), the lines still to scan and how the call ended
    aims

vars ==
    <<mesh, mesh_divisors, coarse_mesh, coarse_mesh_shifts, no_kappa_stars,
      sigmas, temperatures, isotope, request,
      grid_points, grid_weights, grid_point_count, sum_num_kstar,
      gamma, read_gamma, kappa, gv, cv, gamma_iso,
      ise, iso, pp_phonon,
      klog, visited, completed, last, init_ok, clean, snap, gamma_supplied,
      nevents, workers, sched, aims>>

config_vars ==
    <<mesh, mesh_divisors, coarse_mesh, coarse_mesh_shifts, no_kappa_stars,
      sigmas, temperatures, isotope, request>>

\* the constructions tried: mesh numbers of the interaction object, requested
\* divisors and coarse-mesh shifts, no_kappa_stars, the smearing widths
\* (numeric, tetrahedron, zero) and whether mass variances are given
Constructions ==
    {[mesh |-> <<2, 1, 1>>, mesh_divisors |-> NoneSeq, coarse_mesh_shifts |-> NoneSeq,
      no_kappa_stars |-> FALSE, sigmas |-> <<SigmaNone>>, isotope |-> FALSE],
     [mesh |-> <<2, 1, 1>>, mesh_divisors |-> NoneSeq, coarse_mesh_shifts |-> NoneSeq,
      no_kappa_stars |-> TRUE, sigmas |-> <<1, SigmaNone>>, isotope |-> TRUE],
     [mesh |-> <<2, 1, 1>>, mesh_divisors |-> <<2, 1, 1>>, coarse_mesh_shifts |-> <<1, 0, 0>>,
      no_kappa_stars |-> FALSE, sigmas |-> <<0>>, isotope |-> TRUE],
     [mesh |-> <<2, 2, 1>>, mesh_divisors |-> <<1, 2, 1>>, coarse_mesh_shifts |-> NoneSeq,
      no_kappa_stars |-> TRUE, sigmas |-> <<>>, isotope |-> FALSE]}

\* a call and how it ended: status "ok" or the exception raised, value the
\* integer returned (NoneInt when None), mode the selection mode of initialize()
Outcome(op, status, value, mode) ==
    [op |-> op, status |-> status, value |-> value, mode |-> mode]

\* what next() and run() read but never write
Cfg ==
    [sigmas |-> sigmas, temperatures |-> temperatures,
     grid_points |-> grid_points, grid_weights |-> grid_weights,
     read_gamma |-> read_gamma, isotope |-> isotope]

\* what next() and run() may write
Driver ==
    [grid_point_count |-> grid_point_count, sum_num_kstar |-> sum_num_kstar,
     gamma |-> gamma, gamma_iso |-> gamma_iso, kappa |-> kappa,
     ise |-> ise, iso |-> iso, klog |-> klog,
     visited |-> visited, completed |-> completed,
     ret |-> 0, err |-> "ok", value |-> NoneInt]

\* no worker has taken a step
NoSched ==
    [first |-> 0, interleaved |-> FALSE]

\* Conductivity.__init__
Init ==
    /\ \E a \in Constructions :
        /\ mesh = a.mesh
        /\ mesh_divisors = SetMeshDivisors(a.mesh, a.mesh_divisors)
        /\ coarse_mesh_shifts =
               SetCoarseMeshShifts(a.mesh, a.mesh_divisors, a.coarse_mesh_shifts)
        /\ coarse_mesh = CoarseMeshOf(a.mesh, SetMeshDivisors(a.mesh, a.mesh_divisors))
        /\ no_kappa_stars = a.no_kappa_stars
        /\ sigmas = a.sigmas
        /\ isotope = a.isotope
        /\ request = [mesh_divisors |-> a.mesh_divisors,
                      coarse_mesh_shifts |-> a.coarse_mesh_shifts]
    /\ temperatures = TemperaturesTried
    /\ grid_points = NoneSeq
    /\ grid_weights = NoneSeq
    /\ grid_point_count = NoneInt
    /\ sum_num_kstar = NoneInt
    /\ gamma = NoneArray
    /\ read_gamma = FALSE
    /\ kappa = NoneArray
    /\ gv = NoneArray
    /\ cv = NoneArray
    /\ gamma_iso = NoneArray
    /\ ise = IseFresh
    /\ iso = IsoFresh
    /\ pp_phonon = NoneSeq
    /\ klog = <<>>
    /\ visited = <<>>
    /\ completed = <<>>
    /\ last = Outcome("__init__", "ok", NoneInt, "-")
    /\ init_ok = FALSE
    /\ clean = FALSE
    /\ snap = Driver
    /\ gamma_supplied = NoneArray
    /\ nevents = 0
    /\ workers = <<>>
    /\ sched = NoSched
    /\ aims = NotReading

\* ---------------------------------------------------------------------------
\* next() and run()
\* ---------------------------------------------------------------------------
\* NextCall with the exhaustion test off by one: stops before the last point
NextCallOffByOne(cfg, d, f) ==
    IF cfg.grid_points = NoneSeq THEN [d EXCEPT !.err = "TypeError"]
    ELSE IF d.grid_point_count + 1 = Len(cfg.grid_points)
    THEN [d EXCEPT !.err = "StopIteration"]
    ELSE LET r == RunAtGridPoint(
                      cfg,
                      [d EXCEPT !.visited = Append(@, d.grid_point_count)],
                      d.grid_point_count, f)
         IN  IF r.err # "ok" THEN r
             ELSE [r EXCEPT !.grid_point_count = @ + 1,
                            !.completed = Append(@, d.grid_point_count),
                            !.value = r.grid_point_count]

\* NextCall with the counter incremented before the point is processed
NextCallCountFirst(cfg, d, f) ==
    IF cfg.grid_points = NoneSeq THEN [d EXCEPT !.err = "TypeError"]
    ELSE IF d.grid_point_count = Len(cfg.grid_points)
    THEN [d EXCEPT !.err = "StopIteration"]
    ELSE LET r == RunAtGridPoint(
                      cfg,
                      [d EXCEPT !.visited = Append(@, d.grid_point_count + 1),
                                !.grid_point_count = @ + 1],
                      d.grid_point_count + 1, f)
         IN  IF r.err # "ok" THEN r
             ELSE [r EXCEPT !.completed = Append(@, d.grid_point_count + 1),
                            !.value = d.grid_point_count]

\* Conductivity.next on driver state d; f: the call of the per-point
\* processing at which a kernel fails (0: none).  err is the exception raised
\* ("ok": none), value the position returned.
NextCall(cfg, d, f) ==
    IF cfg.grid_points = NoneSeq THEN [d EXCEPT !.err = "TypeError"]
    ELSE IF d.grid_point_count = Len(cfg.grid_points)
    THEN [d EXCEPT !.err = "StopIteration"]
    ELSE LET r == RunAtGridPoint(
                      cfg,
                      [d EXCEPT !.visited = Append(@, d.grid_point_count)],
                      d.grid_point_count, f)
         IN  IF r.err # "ok" THEN r
             ELSE [r EXCEPT !.grid_point_count = @ + 1,
                            !.completed = Append(@, d.grid_point_count),
                            !.value = r.grid_point_count]

\* RunLoop that takes a single step instead of looping
RunOnce(cfg, d, fp, f) ==
    LET r == NextCall(cfg, d, IF d.grid_point_count = fp THEN f ELSE 0)
    IN  IF r.err = "StopIteration" THEN [r EXCEPT !.err = "ok", !.value = NoneInt]
        ELSE IF r.err # "ok" THEN r
        ELSE [r EXCEPT !.value = NoneInt]

RECURSIVE RunLoop(_, _, _, _)
\* Conductivity.run: `for i in self: pass`; the loop ends on StopIteration and
\* lets any other exception through.  A kernel fails at call f of position fp.
RunLoop(cfg, d, fp, f) ==
    LET r == NextCall(cfg, d, IF d.grid_point_count = fp THEN f ELSE 0)
    IN  IF r.err = "StopIteration" THEN [r EXCEPT !.err = "ok", !.value = NoneInt]
        ELSE IF r.err # "ok" THEN r
        ELSE RunLoop(cfg, r, fp, f)

\* the driver's variables take the values of d after the call `op`.  A call
\* that raises IndexError or TypeError would do so again: it is not repeated.
Adopt(d, op) ==
    /\ grid_point_count' = d.grid_point_count
    /\ sum_num_kstar' = d.sum_num_kstar
    /\ gamma' = d.gamma
    /\ gamma_iso' = d.gamma_iso
    /\ kappa' = d.kappa
    /\ ise' = d.ise
    /\ iso' = d.iso
    /\ klog' = d.klog
    /\ visited' = d.visited
    /\ completed' = d.completed
    /\ last' = Outcome(op, d.err, d.value, "-")
    /\ d.err \in {"IndexError", "TypeError"} => last.status \notin {"IndexError", "TypeError"}
    /\ nevents' = IF d.err = "KernelError" THEN nevents + 1 ELSE nevents
    /\ clean' = (clean /\ d.err \in {"ok", "StopIteration"})
    /\ UNCHANGED <<config_vars, grid_points, grid_weights, read_gamma, gv, cv,
                   pp_phonon, init_ok, snap, gamma_supplied, workers, sched, aims>>

next(f) ==
    Adopt(NextCall(Cfg, Driver, f), "next")

run(fp, f) ==
    Adopt(RunLoop(Cfg, Driver, fp, f), "run")

\* ---------------------------------------------------------------------------
\* initialize() and set_gamma()
\* ---------------------------------------------------------------------------
\* AssertWeightSum with the assertion left out
AssertWeightSumOff(weights) ==
    TRUE

\* the assertion of automatic sampling: the weights sum to prod(mesh / mesh_divisors)
AssertWeightSum(weights) ==
    SumSeq(weights) = Prod3(CoarseMeshOf(mesh, mesh_divisors))

\* Selection whose all-points branch does not assign the weights
SelectionStaleWeights(gps, ir) ==
    IF gps # NoneSeq
    THEN IF SelectorFails(mesh, gps)
         THEN [status |-> "IndexError", mode |-> "explicit",
               grid_points |-> grid_points, grid_weights |-> grid_weights]
         ELSE [status |-> "ok", mode |-> "explicit",
               grid_points |-> ReduceGridPoints(mesh, mesh_divisors,
                                                coarse_mesh_shifts, gps),
               grid_weights |-> grid_weights]
    ELSE IF no_kappa_stars
    THEN [status |-> "ok", mode |-> "all",
          grid_points |-> FromCoarseToDense(
                              mesh, mesh_divisors,
                              [p \in 1..Prod3(coarse_mesh) |-> p - 1],
                              coarse_mesh_shifts),
          grid_weights |-> grid_weights]
    ELSE [status |-> IF AssertWeightSum(ir.weights) THEN "ok" ELSE "AssertionError",
          mode |-> "auto",
          grid_points |-> FromCoarseToDense(mesh, mesh_divisors, ir.points,
                                            coarse_mesh_shifts),
          grid_weights |-> ir.weights]

\* the three selection modes of initialize(): explicit points, all points,
\* automatic sampling (ir: what get_ir_grid_points returns)
Selection(gps, ir) ==
    IF gps # NoneSeq
    THEN IF SelectorFails(mesh, gps)
         THEN [status |-> "IndexError", mode |-> "explicit",
               grid_points |-> grid_points, grid_weights |-> grid_weights]
         ELSE [status |-> "ok", mode |-> "explicit",
               grid_points |-> ReduceGridPoints(mesh, mesh_divisors,
                                                coarse_mesh_shifts, gps),
               grid_weights |-> grid_weights]
    ELSE IF no_kappa_stars
    THEN LET dense == FromCoarseToDense(
                          mesh, mesh_divisors,
                          [p \in 1..Prod3(coarse_mesh) |-> p - 1],
                          coarse_mesh_shifts)
         IN  [status |-> "ok", mode |-> "all",
              grid_points |-> dense,
              grid_weights |-> [p \in 1..Len(dense) |-> 1]]
    ELSE [status |-> IF AssertWeightSum(ir.weights) THEN "ok" ELSE "AssertionError",
          mode |-> "auto",
          grid_points |-> FromCoarseToDense(mesh, mesh_divisors, ir.points,
                                            coarse_mesh_shifts),
          grid_weights |-> ir.weights]

\* self._grid_address[self._grid_points] raises for a point outside the mesh
QpointsFail(gps) ==
    \E p \in 1..Len(gps) : gps[p] >= Prod3(mesh)

\* AllocateValues that allocates gamma whether or not one was supplied
AllocateValuesAlways(n, rg, g) ==
    [kappa |-> Zeros(<<Len(sigmas), n, Len(temperatures)>>),
     gamma |-> Zeros(<<Len(sigmas), n, Len(temperatures)>>),
     gv |-> Zeros(<<n>>),
     cv |-> Zeros(<<n, Len(temperatures)>>),
     gamma_iso |-> Zeros(<<Len(sigmas), n>>)]

\* Conductivity._allocate_values for n selected points: zero arrays; gamma is
\* left as it is when read_gamma is set
AllocateValues(n, rg, g) ==
    [kappa |-> Zeros(<<Len(sigmas), n, Len(temperatures)>>),
     gamma |-> IF ~rg THEN Zeros(<<Len(sigmas), n, Len(temperatures)>>) ELSE g,
     gv |-> Zeros(<<n>>),
     cv |-> Zeros(<<n, Len(temperatures)>>),
     gamma_iso |-> Zeros(<<Len(sigmas), n>>)]

\* initialize that resets the two counters only on a driver not yet
\* initialized
initializeResetOnce(gps, ir, pf) ==
    /\ nevents < MaxEvents
    /\ LET sel == Selection(gps, ir)
           aborted == sel.status # "ok" \/ QpointsFail(sel.grid_points)
           status == IF sel.status # "ok" THEN sel.status
                     ELSE IF QpointsFail(sel.grid_points) THEN "IndexError"
                     ELSE IF pf THEN "KernelError" ELSE "ok"
           a == AllocateValues(Len(sel.grid_points), read_gamma, gamma)
           calls == IF aborted THEN <<>>
                    ELSE IF pf THEN <<<<"pp.set_phonon", Len(sel.grid_points)>>>>
                    ELSE <<<<"pp.set_phonon", Len(sel.grid_points)>>,
                           <<"pp.get_phonons", 0>>>>
       IN  /\ grid_points' = sel.grid_points
           /\ grid_weights' = sel.grid_weights
           /\ IF aborted
              THEN UNCHANGED <<sum_num_kstar, grid_point_count, kappa, gamma, gv,
                               cv, gamma_iso>>
              ELSE /\ sum_num_kstar' = (IF sum_num_kstar = NoneInt THEN 0
                                        ELSE sum_num_kstar)
                   /\ grid_point_count' = (IF grid_point_count = NoneInt THEN 0
                                           ELSE grid_point_count)
                   /\ kappa' = a.kappa
                   /\ gamma' = a.gamma
                   /\ gv' = a.gv
                   /\ cv' = a.cv
                   /\ gamma_iso' = a.gamma_iso
           /\ pp_phonon' = IF status = "ok" THEN sel.grid_points ELSE pp_phonon
           /\ klog' = calls
           /\ visited' = <<>>
           /\ completed' = <<>>
           /\ last' = Outcome("initialize", status, NoneInt, sel.mode)
           /\ init_ok' = (status = "ok")
           /\ clean' = (status = "ok")
           /\ snap' = IF status = "ok"
                      THEN [grid_point_count |-> 0, sum_num_kstar |-> 0,
                            gamma |-> a.gamma, gamma_iso |-> a.gamma_iso,
                            kappa |-> a.kappa, ise |-> ise, iso |-> iso,
                            klog |-> calls, visited |-> <<>>, completed |-> <<>>,
                            ret |-> 0, err |-> "ok", value |-> NoneInt]
                      ELSE snap
           /\ nevents' = nevents + 1
    /\ UNCHANGED <<config_vars, read_gamma, ise, iso, gamma_supplied, workers, sched, aims>>

\* Conductivity.initialize(grid_points=gps); pf: the phonon kernel fails in
\* set_phonon
initialize(gps, ir, pf) ==
    /\ nevents < MaxEvents
    /\ LET sel == Selection(gps, ir)
           aborted == sel.status # "ok" \/ QpointsFail(sel.grid_points)
           status == IF sel.status # "ok" THEN sel.status
                     ELSE IF QpointsFail(sel.grid_points) THEN "IndexError"
                     ELSE IF pf THEN "KernelError" ELSE "ok"
           a == AllocateValues(Len(sel.grid_points), read_gamma, gamma)
           calls == IF aborted THEN <<>>
                    ELSE IF pf THEN <<<<"pp.set_phonon", Len(sel.grid_points)>>>>
                    ELSE <<<<"pp.set_phonon", Len(sel.grid_points)>>,
                           <<"pp.get_phonons", 0>>>>
       IN  /\ grid_points' = sel.grid_points
           /\ grid_weights' = sel.grid_weights
           /\ IF aborted
              THEN UNCHANGED <<sum_num_kstar, grid_point_count, kappa, gamma, gv,
                               cv, gamma_iso>>
              ELSE /\ sum_num_kstar' = 0
                   /\ grid_point_count' = 0
                   /\ kappa' = a.kappa
                   /\ gamma' = a.gamma
                   /\ gv' = a.gv
                   /\ cv' = a.cv
                   /\ gamma_iso' = a.gamma_iso
           /\ pp_phonon' = IF status = "ok" THEN sel.grid_points ELSE pp_phonon
           /\ klog' = calls
           /\ visited' = <<>>
           /\ completed' = <<>>
           /\ last' = Outcome("initialize", status, NoneInt, sel.mode)
           /\ init_ok' = (status = "ok")
           /\ clean' = (status = "ok")
           /\ snap' = IF status = "ok"
                      THEN [grid_point_count |-> 0, sum_num_kstar |-> 0,
                            gamma |-> a.gamma, gamma_iso |-> a.gamma_iso,
                            kappa |-> a.kappa, ise |-> ise, iso |-> iso,
                            klog |-> calls, visited |-> <<>>, completed |-> <<>>,
                            ret |-> 0, err |-> "ok", value |-> NoneInt]
                      ELSE snap
           /\ nevents' = nevents + 1
    /\ UNCHANGED <<config_vars, read_gamma, ise, iso, gamma_supplied, workers, sched, aims>>

\* the arrays handed to set_gamma(): every grid-point length up to MaxExplicit
GammaInputs ==
    {Filled(<<Len(sigmas), g, Len(temperatures)>>, ExternalValue) :
        g \in 1..MaxExplicit}

\* Conductivity.set_gamma(g)
set_gamma(g) ==
    /\ nevents < MaxEvents
    /\ gamma' = g
    /\ read_gamma' = TRUE
    /\ gamma_supplied' = g
    /\ last' = Outcome("set_gamma", "ok", NoneInt, "-")
    /\ clean' = FALSE
    /\ nevents' = nevents + 1
    /\ UNCHANGED <<config_vars, grid_points, grid_weights, grid_point_count,
                   sum_num_kstar, kappa, gv, cv, gamma_iso, ise, iso, pp_phonon,
                   klog, visited, completed, init_ok, snap, workers, sched, aims>>

\* the calls at which a kernel failure may be injected into next() / run()
InjectionPoints ==
    IF nevents < MaxEvents /\ grid_points # NoneSeq
       /\ grid_point_count # NoneInt /\ grid_point_count < Len(grid_points)
    THEN FailPoints(Cfg)
    ELSE {}

\* the positions at which run() may meet the kernel failure
Positions ==
    IF InjectionPoints = {} THEN {0}
    ELSE grid_point_count..(Len(grid_points) - 1)

\* what initialize() is called with: an explicit list, or nothing together
\* with what get_ir_grid_points returns in automatic mode; and whether the
\* phonon kernel fails
NoIr ==
    [points |-> <<>>, weights |-> <<>>]

InitializeInputs ==
    {[gps |-> g, ir |-> NoIr] : g \in ExplicitInputs(mesh)}
    \cup {[gps |-> NoneSeq, ir |-> r] :
             r \in IF no_kappa_stars THEN {NoIr} ELSE IrResults(coarse_mesh)}

Next ==
    \/ \E x \in InitializeInputs, pf \in BOOLEAN : initialize(x.gps, x.ir, pf)
    \/ \E f \in {0} \cup InjectionPoints : next(f)
    \/ \E fp \in Positions, f \in {0} \cup InjectionPoints : run(fp, f)
    \/ \E g \in GammaInputs : set_gamma(g)

Spec ==
    Init /\ [][Next]_vars

\* ---------------------------------------------------------------------------
\* The constructor's mesh numbers on their own: every mesh of the interaction
\* object, every requested divisor triple (or none) and every requested shift
\* triple (or none)
\* ---------------------------------------------------------------------------
MaxMesh ==
    4

MaxDivisor ==
    4

Triples(S) ==
    {<<a, b, c>> : a \in S, b \in S, c \in S}

\* the attributes as lines 47-61 leave them, before _set_mesh_numbers
MeshInit ==
    /\ mesh = NoneSeq
    /\ mesh_divisors = NoneSeq
    /\ coarse_mesh = NoneSeq
    /\ coarse_mesh_shifts = NoneSeq
    /\ request = [mesh_divisors |-> NoneSeq, coarse_mesh_shifts |-> NoneSeq]
    /\ no_kappa_stars = FALSE
    /\ sigmas = <<>>
    /\ isotope = FALSE
    /\ temperatures = TemperaturesTried
    /\ grid_points = NoneSeq
    /\ grid_weights = NoneSeq
    /\ grid_point_count = NoneInt
    /\ sum_num_kstar = NoneInt
    /\ gamma = NoneArray
    /\ read_gamma = FALSE
    /\ kappa = NoneArray
    /\ gv = NoneArray
    /\ cv = NoneArray
    /\ gamma_iso = NoneArray
    /\ ise = IseFresh
    /\ iso = IsoFresh
    /\ pp_phonon = NoneSeq
    /\ klog = <<>>
    /\ visited = <<>>
    /\ completed = <<>>
    /\ last = Outcome("-", "ok", NoneInt, "-")
    /\ init_ok = FALSE
    /\ clean = FALSE
    /\ snap = Driver
    /\ gamma_supplied = NoneArray
    /\ nevents = 0
    /\ workers = <<>>
    /\ sched = NoSched
    /\ aims = NotReading

\* Conductivity._set_mesh_numbers(mesh_divisors=d, coarse_mesh_shifts=s) on an
\* interaction object whose mesh numbers are m
set_mesh_numbers(m, d, s) ==
    /\ mesh = NoneSeq
    /\ mesh' = m
    /\ mesh_divisors' = SetMeshDivisors(m, d)
    /\ coarse_mesh_shifts' = SetCoarseMeshShifts(m, d, s)
    /\ coarse_mesh' = CoarseMeshOf(m, SetMeshDivisors(m, d))
    /\ request' = [mesh_divisors |-> d, coarse_mesh_shifts |-> s]
    /\ last' = Outcome("__init__", "ok", NoneInt, "-")
    /\ UNCHANGED <<no_kappa_stars, sigmas, temperatures, isotope,
                   grid_points, grid_weights, grid_point_count, sum_num_kstar,
                   gamma, read_gamma, kappa, gv, cv, gamma_iso, ise, iso,
                   pp_phonon, klog, visited, completed, init_ok, clean, snap,
                   gamma_supplied, nevents, workers, sched, aims>>

\* the constructor runs once
MeshNext ==
    /\ mesh = NoneSeq
    /\ \E m \in Triples(1..MaxMesh),
          d \in {NoneSeq} \cup Triples(1..MaxDivisor),
          s \in {NoneSeq} \cup Triples({0, 1}) :
           set_mesh_numbers(m, d, s)

SpecMesh ==
    MeshInit /\ [][MeshNext]_vars

\* ---------------------------------------------------------------------------
\* initialize() without arguments on drivers constructed with star averaging
\* disabled, over every mesh up to MaxMesh and every divisor up to
\* MaxAllDivisor, with no shift or a shift requested along every axis, and
\* with one smearing width (the tetrahedron method)
\* ---------------------------------------------------------------------------
MaxAllDivisor ==
    2

\* Conductivity.__init__ with no_kappa_stars=True
AllInit ==
    /\ \E m \in Triples(1..MaxMesh),
          d \in {NoneSeq} \cup Triples(1..MaxAllDivisor),
          s \in {NoneSeq, <<1, 1, 1>>} :
        /\ mesh = m
        /\ mesh_divisors = SetMeshDivisors(m, d)
        /\ coarse_mesh_shifts = SetCoarseMeshShifts(m, d, s)
        /\ coarse_mesh = CoarseMeshOf(m, SetMeshDivisors(m, d))
        /\ request = [mesh_divisors |-> d, coarse_mesh_shifts |-> s]
    /\ no_kappa_stars = TRUE
    /\ sigmas = <<SigmaNone>>
    /\ isotope = FALSE
    /\ temperatures = TemperaturesTried
    /\ grid_points = NoneSeq
    /\ grid_weights = NoneSeq
    /\ grid_point_count = NoneInt
    /\ sum_num_kstar = NoneInt
    /\ gamma = NoneArray
    /\ read_gamma = FALSE
    /\ kappa = NoneArray
    /\ gv = NoneArray
    /\ cv = NoneArray
    /\ gamma_iso = NoneArray
    /\ ise = IseFresh
    /\ iso = IsoFresh
    /\ pp_phonon = NoneSeq
    /\ klog = <<>>
    /\ visited = <<>>
    /\ completed = <<>>
    /\ last = Outcome("__init__", "ok", NoneInt, "-")
    /\ init_ok = FALSE
    /\ clean = FALSE
    /\ snap = Driver
    /\ gamma_supplied = NoneArray
    /\ nevents = 0
    /\ workers = <<>>
    /\ sched = NoSched
    /\ aims = NotReading

\* initialize() called once, without arguments
AllNext ==
    /\ last.op = "__init__"
    /\ initialize(NoneSeq, NoIr, FALSE)

SpecAll ==
    AllInit /\ [][AllNext]_vars

\* ---------------------------------------------------------------------------
\* Two workers on one driver: each executes the per-point step of its own
\* position call by call, the calls of the two in any interleaving
\* ---------------------------------------------------------------------------
NumWorkers ==
    2

\* the number of smearing widths up to which the workers compute the
\* linewidths themselves; with more, gamma is supplied
MaxParSigmas ==
    1

\* the driver right after an initialize() without arguments that selected
\* NumWorkers points, with gamma computed or supplied in the allocated shape;
\* worker w is given position w - 1
ParInit ==
    /\ \E a \in Constructions :
        /\ mesh = a.mesh
        /\ mesh_divisors = SetMeshDivisors(a.mesh, a.mesh_divisors)
        /\ coarse_mesh_shifts =
               SetCoarseMeshShifts(a.mesh, a.mesh_divisors, a.coarse_mesh_shifts)
        /\ coarse_mesh = CoarseMeshOf(a.mesh, SetMeshDivisors(a.mesh, a.mesh_divisors))
        /\ no_kappa_stars = a.no_kappa_stars
        /\ sigmas = a.sigmas
        /\ isotope = a.isotope
        /\ request = [mesh_divisors |-> a.mesh_divisors,
                      coarse_mesh_shifts |-> a.coarse_mesh_shifts]
    /\ temperatures = TemperaturesTried
    /\ read_gamma \in BOOLEAN
    /\ Len(sigmas) <= MaxParSigmas \/ read_gamma
    /\ \E ir \in (IF no_kappa_stars THEN {NoIr} ELSE IrResults(coarse_mesh)) :
        LET sel == Selection(NoneSeq, ir)
            n == Len(sel.grid_points)
            g == Filled(<<Len(sigmas), n, Len(temperatures)>>, ExternalValue)
            a == AllocateValues(n, read_gamma, g)
        IN  /\ sel.status = "ok"
            /\ ~QpointsFail(sel.grid_points)
            /\ n = NumWorkers
            /\ grid_points = sel.grid_points
            /\ grid_weights = sel.grid_weights
            /\ gamma = a.gamma
            /\ kappa = a.kappa
            /\ gv = a.gv
            /\ cv = a.cv
            /\ gamma_iso = a.gamma_iso
            /\ gamma_supplied = (IF read_gamma THEN g ELSE NoneArray)
            /\ pp_phonon = sel.grid_points
            /\ last = Outcome("initialize", "ok", NoneInt, sel.mode)
    /\ grid_point_count = 0
    /\ sum_num_kstar = 0
    /\ ise = IseFresh
    /\ iso = IsoFresh
    /\ klog = <<>>
    /\ visited = <<>>
    /\ completed = <<>>
    /\ init_ok = TRUE
    /\ clean = TRUE
    /\ snap = Driver
    /\ nevents = 0
    /\ workers = [w \in 1..NumWorkers |-> [pos |-> w - 1, pc |-> 1, ret |-> 0]]
    /\ sched = NoSched
    /\ aims = NotReading

\* worker w is inside its per-point step: begun and not finished
Inside(w) ==
    workers[w].pc > 1 /\ workers[w].pc <= Len(RunAtGridPointCalls(Cfg))

\* worker w makes the next call of the per-point step of its position on the
\* shared driver; the value a kernel returned is local to the worker until it
\* is stored
WorkerStep(w) ==
    LET me == workers[w]
        prog == RunAtGridPointCalls(Cfg)
    IN  /\ me.pc <= Len(prog)
        /\ LET r == Exec(Cfg, [Driver EXCEPT !.ret = me.ret], prog[me.pc], me.pos)
           IN  /\ r.err = "ok"
               /\ sum_num_kstar' = r.sum_num_kstar
               /\ gamma' = r.gamma
               /\ gamma_iso' = r.gamma_iso
               /\ kappa' = r.kappa
               /\ ise' = r.ise
               /\ iso' = r.iso
               /\ workers' = [workers EXCEPT ![w] = [me EXCEPT !.pc = @ + 1,
                                                               !.ret = r.ret]]
        /\ sched' = [first |-> IF sched.first = 0 THEN w ELSE sched.first,
                     interleaved |-> \/ sched.interleaved
                                     \/ \E v \in 1..NumWorkers : v # w /\ Inside(v)]
        /\ UNCHANGED <<config_vars, grid_points, grid_weights, grid_point_count,
                       read_gamma, gv, cv, pp_phonon, klog, visited, completed,
                       last, init_ok, clean, snap, gamma_supplied, nevents, aims>>

ParNext ==
    \E w \in 1..NumWorkers : WorkerStep(w)

SpecPar ==
    ParInit /\ [][ParNext]_vars

\* ---------------------------------------------------------------------------
\* read_aims alone: a geometry file is scanned line by line
\* ---------------------------------------------------------------------------
\* the state of the driver, which read_aims neither reads nor writes
conductivity_vars ==
    <<mesh, mesh_divisors, coarse_mesh, coarse_mesh_shifts, no_kappa_stars,
      sigmas, temperatures, isotope, request,
      grid_points, grid_weights, grid_point_count, sum_num_kstar,
      gamma, read_gamma, kappa, gv, cv, gamma_iso,
      ise, iso, pp_phonon,
      klog, visited, completed, last, init_ok, clean, snap, gamma_supplied,
      nevents, workers, sched>>

\* read_aims(filename) has read the lines of the file; no driver exists
AimsInit ==
    /\ \E lines \in GeometryFiles : aims = Locals(lines)
    /\ mesh = NoneSeq
    /\ mesh_divisors = NoneSeq
    /\ coarse_mesh = NoneSeq
    /\ coarse_mesh_shifts = NoneSeq
    /\ request = [mesh_divisors |-> NoneSeq, coarse_mesh_shifts |-> NoneSeq]
    /\ no_kappa_stars = FALSE
    /\ sigmas = <<>>
    /\ isotope = FALSE
    /\ temperatures = TemperaturesTried
    /\ grid_points = NoneSeq
    /\ grid_weights = NoneSeq
    /\ grid_point_count = NoneInt
    /\ sum_num_kstar = NoneInt
    /\ gamma = NoneArray
    /\ read_gamma = FALSE
    /\ kappa = NoneArray
    /\ gv = NoneArray
    /\ cv = NoneArray
    /\ gamma_iso = NoneArray
    /\ ise = IseFresh
    /\ iso = IsoFresh
    /\ pp_phonon = NoneSeq
    /\ klog = <<>>
    /\ visited = <<>>
    /\ completed = <<>>
    /\ last = Outcome("-", "ok", NoneInt, "-")
    /\ init_ok = FALSE
    /\ clean = FALSE
    /\ snap = Driver
    /\ gamma_supplied = NoneArray
    /\ nevents = 0
    /\ workers = <<>>
    /\ sched = NoSched

\* one pass of the loop over the lines
read_line ==
    /\ aims.status = "reading"
    /\ aims.nread < Len(aims.lines)
    /\ aims' = [ReadLine(aims, aims.lines[aims.nread + 1]) EXCEPT !.nread = @ + 1]
    /\ UNCHANGED conductivity_vars

\* the loop is over: the rest of read_aims
return_atoms ==
    /\ aims.status = "reading"
    /\ aims.nread = Len(aims.lines)
    /\ aims' = ReturnAtoms(aims)
    /\ UNCHANGED conductivity_vars

AimsNext ==
    \/ read_line
    \/ return_atoms

SpecAims ==
    AimsInit /\ [][AimsNext]_vars

\* ---------------------------------------------------------------------------
\* Properties
\* ---------------------------------------------------------------------------
\* the number of selected grid points
NumGridPoints ==
    Len(grid_points)

\* the positions 0 .. n-1 in increasing order
Upto(n) ==
    [p \in 1..n |-> p - 1]

\* the latest call found the iterator exhausted
Exhausted ==
    \/ last.op = "next" /\ last.status = "StopIteration"
    \/ last.op = "run" /\ last.status = "ok"

\* C1: after a completed initialize() that selected n points, the per-point
\* processing has completed exactly once for each position below the counter,
\* in increasing order; as long as no call has raised these are the only
\* invocations; a next() that returns gives the position it processed; and
\* when the iterator is found exhausted the counter is n.
C1_ExactlyOnceInOrder ==
    init_ok =>
        /\ completed = Upto(grid_point_count)
        /\ clean => visited = Upto(grid_point_count)
        /\ (last.op = "next" /\ last.status = "ok") =>
               /\ last.value = grid_point_count - 1
               /\ last.value = completed[Len(completed)]
        /\ Exhausted => grid_point_count = NumGridPoints

\* reached: two points driven to exhaustion by next() alone
C1_Witness ==
    /\ init_ok /\ clean
    /\ last.op = "next" /\ last.status = "StopIteration"
    /\ visited = <<0, 1>>

\* the attributes and kernels a per-point step may touch
Touchable ==
    <<grid_point_count, sum_num_kstar, kappa, gamma, gamma_iso, gv, cv, ise, iso,
      pp_phonon, klog, visited, completed>>

\* C2: once grid_point_count equals the number of selected points, a next()
\* raises StopIteration, makes no kernel call, invokes no per-point processing
\* and changes neither the counter nor a result array (and run() returns
\* without doing anything); this holds for every such call until initialize().
C2_ExhaustedStays ==
    [][(/\ grid_points # NoneSeq
        /\ grid_point_count = NumGridPoints
        /\ last'.op \in {"next", "run"})
       => /\ last'.op = "next" => last'.status = "StopIteration"
          /\ last'.op = "run" => last'.status = "ok"
          /\ Touchable' = Touchable]_vars

\* reached: StopIteration from a driver initialized with no grid point at all
C2_Witness ==
    /\ init_ok
    /\ grid_points = <<>>
    /\ last.op = "next" /\ last.status = "StopIteration"

\* what next(), run() read and write of the driver
Core(d) ==
    [grid_point_count |-> d.grid_point_count, sum_num_kstar |-> d.sum_num_kstar,
     gamma |-> d.gamma, gamma_iso |-> d.gamma_iso, kappa |-> d.kappa,
     ise |-> d.ise, iso |-> d.iso, klog |-> d.klog]

\* C3: whenever the iterator is found exhausted after a completed
\* initialize() followed only by next() and run() calls that did not raise,
\* the counter, the result arrays, the kernels and the sequence of kernel
\* calls are those that a single run() right after initialize() produces,
\* however many next() calls came before the run() (none, some, or all n).
C3_RunEqualsSteps ==
    (init_ok /\ clean /\ Exhausted) => Core(Driver) = Core(RunLoop(Cfg, snap, 0, 0))

\* reached: exhaustion found by next() after both of two points were processed
C3_Witness ==
    /\ init_ok /\ clean
    /\ last.op = "next" /\ last.status = "StopIteration"
    /\ grid_point_count = 2
    /\ klog # snap.klog

\* C4: a gamma array supplied with set_gamma() stays the driver's gamma with
\* every entry unchanged through initialize() and every next() / run().
C4_SuppliedGammaKept ==
    read_gamma => gamma = gamma_supplied

\* reached: gamma supplied before initialize(), then a point processed
C4_Witness ==
    /\ init_ok /\ read_gamma
    /\ snap.gamma = gamma_supplied
    /\ completed # <<>>
    /\ gamma = gamma_supplied

\* the entries of array arr whose grid-point index (at `axis`) is p
SliceAt(arr, axis, p) ==
    {x \in DOMAIN arr.data : x[axis + 1] = p}

\* position p is still zero in every tensor the per-point processing computes
\* (gamma is not computed when it was supplied)
Untouched(p) ==
    /\ \A x \in SliceAt(kappa, 1, p) : kappa.data[x] = 0
    /\ \A x \in SliceAt(gamma_iso, 1, p) : gamma_iso.data[x] = 0
    /\ ~read_gamma => \A x \in SliceAt(gamma, 1, p) : gamma.data[x] = 0

\* position p has been processed: a processing of it completed and its
\* results are in the tensors
Processed(p) ==
    /\ \E q \in 1..Len(completed) : completed[q] = p
    /\ \A x \in SliceAt(kappa, 1, p) : kappa.data[x] # 0
    /\ isotope => \A x \in SliceAt(gamma_iso, 1, p) : gamma_iso.data[x] # 0
    /\ ~read_gamma => \A x \in SliceAt(gamma, 1, p) : gamma.data[x] # 0

\* C5 as stated: after a completed initialize() the counter is within 0..n,
\* equals the number of completed processings, the positions below it are
\* processed and the positions at or above it are untouched.
C5_Original ==
    init_ok =>
        /\ grid_point_count \in 0..NumGridPoints
        /\ grid_point_count = Len(completed)
        /\ \A p \in 0..(NumGridPoints - 1) :
              /\ p < grid_point_count => Processed(p)
              /\ p >= grid_point_count => Untouched(p)

\* C5 amended: as C5, but the position at the counter is untouched only as
\* long as no processing of it was begun and then ended by an exception; the
\* positions above the counter are untouched always.
C5_CounterIsAuthoritative ==
    init_ok =>
        /\ grid_point_count \in 0..NumGridPoints
        /\ grid_point_count = Len(completed)
        /\ \A p \in 0..(NumGridPoints - 1) :
              /\ p < grid_point_count => Processed(p)
              /\ p > grid_point_count => Untouched(p)
              /\ p = grid_point_count =>
                     \/ Untouched(p)
                     \/ \E q \in 1..Len(visited) : visited[q] = p

\* reached: the drive loop stopped by a failure at the second of two points,
\* the first processed, the second partly written
C5_Witness ==
    /\ init_ok
    /\ NumGridPoints = 2 /\ grid_point_count = 1
    /\ Processed(0)
    /\ ~Untouched(1)

\* C6: a next() that ends with a kernel failure leaves the counter and the
\* completed processings as they were, has invoked the processing of the
\* position at the counter once and made no kernel call after the failing
\* one; and the next() that follows a failed next() / run() processes the
\* same position again, returning it when it succeeds.
C6_FailureKeepsPosition ==
    [][/\ (last'.op = "next" /\ last'.status = "KernelError") =>
              /\ grid_point_count' = grid_point_count
              /\ completed' = completed
              /\ visited' = Append(visited, grid_point_count)
              /\ Len(klog') > Len(klog)
              /\ Len(klog') - Len(klog) <= Len(RunAtGridPointCalls(Cfg))
              /\ SubSeq(klog', 1, Len(klog)) = klog
              /\ klog'[Len(klog')][1] \in FailableCalls
       /\ (/\ last.op \in {"next", "run"} /\ last.status = "KernelError"
           /\ last'.op = "next" /\ last'.status \in {"ok", "KernelError"}) =>
              /\ visited' = Append(visited, visited[Len(visited)])
              /\ last'.status = "ok" => last'.value = visited[Len(visited)]
      ]_vars

\* reached: a position processed again, successfully, by the next() after the
\* one in which the kernel failed
C6_Witness ==
    /\ init_ok
    /\ last.op = "next" /\ last.status = "ok"
    /\ Len(visited) >= 2
    /\ visited[Len(visited) - 1] = visited[Len(visited)]
    /\ last.value = visited[Len(visited)]

\* C7: an initialize() in automatic mode ends normally only with weights that
\* sum to prod(coarse mesh); with any other sum it ends with AssertionError,
\* the counter, the star count, the tensors and the points held by the phonon
\* kernel as they were and no kernel call made; in the other two modes the
\* weights are not checked.
C7_WeightSumAsserted ==
    [][last'.op = "initialize" =>
          /\ (last'.mode = "auto" /\ last'.status = "ok") =>
                 SumSeq(grid_weights') = Prod3(coarse_mesh)
          /\ (last'.mode = "auto" /\ SumSeq(grid_weights') # Prod3(coarse_mesh)) =>
                 /\ last'.status = "AssertionError"
                 /\ UNCHANGED <<grid_point_count, sum_num_kstar, kappa, gamma, gv,
                                cv, gamma_iso, pp_phonon>>
                 /\ klog' = <<>>
          /\ last'.mode # "auto" => last'.status # "AssertionError"
      ]_vars

\* reached: an automatic initialize() aborted on its weights after a point had
\* been processed, the counter still at 1
C7_Witness ==
    /\ last.op = "initialize" /\ last.status = "AssertionError"
    /\ last.mode = "auto"
    /\ grid_point_count = 1
    /\ SumSeq(grid_weights) # Prod3(coarse_mesh)

\* the shape _allocate_values gives the linewidth array
ExpectedGammaShape ==
    <<Len(sigmas), NumGridPoints, Len(temperatures)>>

\* C8: an initialize() that ends normally with a supplied gamma has checked
\* its shape, and no next() / run() after a completed initialize() fails on
\* the shape of gamma.
C8_ShapeRejected ==
    /\ (last.op = "initialize" /\ last.status = "ok" /\ read_gamma) =>
           gamma.shape = ExpectedGammaShape
    /\ (init_ok /\ snap.gamma = gamma /\ last.op \in {"next", "run"}) =>
           last.status # "IndexError"

\* the grid-point dimension of every result tensor is n
GridDimsAre(n) ==
    /\ GridDim(kappa, 1) = n
    /\ GridDim(gamma, 1) = n
    /\ GridDim(gamma_iso, 1) = n
    /\ GridDim(gv, 0) = n
    /\ GridDim(cv, 0) = n

\* C9: after a completed initialize() the grid-point dimension of kappa,
\* gamma, gamma_iso, gv and cv is the number of selected grid points.
C9_GridDimension ==
    init_ok => GridDimsAre(NumGridPoints)

\* every worker has made the last call of its step
AllDone ==
    \A w \in 1..NumWorkers : workers[w].pc > Len(RunAtGridPointCalls(Cfg))

Tensors(d) ==
    [gamma |-> d.gamma, gamma_iso |-> d.gamma_iso, kappa |-> d.kappa]

\* the tensors after next() has processed the positions one after another, in
\* order, from the state initialize() left
InOrderTensors ==
    Tensors(RunLoop(Cfg, snap, 0, 0))

\* C10 as stated: when both workers have finished, whatever the interleaving
\* of their calls, gamma, gamma_iso and kappa equal those of sequential
\* in-order processing.
C10_Original ==
    AllDone => Tensors(Driver) = InOrderTensors

\* C10 amended: when both workers have finished and neither made a call while
\* the other was inside its step (the steps ran one at a time, in either
\* order), gamma, gamma_iso and kappa equal those of sequential in-order
\* processing.
C10_OneAtATime ==
    (AllDone /\ ~sched.interleaved) => Tensors(Driver) = InOrderTensors

\* reached: the worker of position 1 ran its whole step before the worker of
\* position 0 began, with linewidths computed and stored
C10_Witness ==
    /\ AllDone /\ ~sched.interleaved
    /\ sched.first = 2
    /\ ~read_gamma
    /\ \E x \in DOMAIN gamma.data : gamma.data[x] # 0
    /\ Tensors(Driver) = InOrderTensors

\* the mesh numbers have been set by the constructor
Constructed ==
    mesh # NoneSeq

\* the shift in effect along axis i: what initialize() hands to the grid
\* utilities
ShiftInEffect(i) ==
    ShiftsOrZero(coarse_mesh_shifts)[i] # 0

\* C11: after construction the divisor of each axis is the requested one if
\* it divides the mesh number of that axis and 1 otherwise (1 on every axis
\* when none was requested), whatever the other two axes are; construction
\* ends normally.
C11_DivisorFallback ==
    Constructed =>
        /\ last.status = "ok"
        /\ \A i \in 1..3 :
              mesh_divisors[i] =
                  IF request.mesh_divisors = NoneSeq THEN 1
                  ELSE IF mesh[i] % request.mesh_divisors[i] = 0
                       THEN request.mesh_divisors[i]
                       ELSE 1

\* reached: one axis fell back to 1 while another kept a divisor above 1
C11_Witness ==
    /\ Constructed
    /\ request.mesh_divisors # NoneSeq
    /\ mesh[1] % request.mesh_divisors[1] # 0 /\ mesh_divisors[1] = 1
    /\ mesh_divisors[2] = request.mesh_divisors[2] /\ mesh_divisors[2] > 1

\* C12: after construction coarse_mesh[i] * mesh_divisors[i] = mesh[i] on
\* every axis.
C12_ExactFolding ==
    Constructed => \A i \in 1..3 : coarse_mesh[i] * mesh_divisors[i] = mesh[i]

\* reached: a mesh folded by a divisor above 1 on one axis next to an axis
\* whose requested divisor did not divide
C12_Witness ==
    /\ Constructed
    /\ request.mesh_divisors # NoneSeq
    /\ mesh_divisors[1] > 1 /\ coarse_mesh[1] > 1
    /\ mesh[2] % request.mesh_divisors[2] # 0
    /\ \A i \in 1..3 : coarse_mesh[i] * mesh_divisors[i] = mesh[i]

\* C13: after construction a shift is in effect along an axis only if the
\* divisor of that axis is even, and a requested shift along an axis whose
\* divisor is even is in effect.
C13_ShiftOnlyEven ==
    Constructed =>
        \A i \in 1..3 :
            /\ ShiftInEffect(i) => mesh_divisors[i] % 2 = 0
            /\ (/\ request.coarse_mesh_shifts # NoneSeq
                /\ request.coarse_mesh_shifts[i] # 0
                /\ mesh_divisors[i] % 2 = 0) => ShiftInEffect(i)

\* reached: shifts requested along three axes: kept where the divisor is
\* even, dropped where an even requested divisor fell back to 1
C13_Witness ==
    /\ Constructed
    /\ request.coarse_mesh_shifts = <<1, 1, 1>>
    /\ request.mesh_divisors # NoneSeq
    /\ request.mesh_divisors[1] % 2 = 0 /\ mesh_divisors[1] = 1 /\ ~ShiftInEffect(1)
    /\ mesh_divisors[2] % 2 = 0 /\ ShiftInEffect(2)

\* the fine-mesh point g is the image of coarse-grid index c: its address is
\* the coarse address times the divisors, moved by half a divisor along the
\* shifted axes
IsImageOf(g, c) ==
    LET ca == GridAddress(coarse_mesh, c)
        fa == GridAddress(mesh, g)
    IN  \A a \in 1..3 :
            fa[a] = (ca[a] * mesh_divisors[a]
                     + (IF ShiftInEffect(a) THEN mesh_divisors[a] \div 2 ELSE 0))
                    % mesh[a]

\* C14: an initialize() without arguments on a driver with star averaging
\* disabled ends normally with prod(coarse_mesh) selected points, the p-th
\* being the fine-mesh image of coarse index p - 1, and with as many weights,
\* all 1.
C14_AllPoints ==
    (last.op = "initialize" /\ last.mode = "all") =>
        /\ last.status = "ok"
        /\ Len(grid_points) = Prod3(coarse_mesh)
        /\ \A p \in 1..Len(grid_points) : IsImageOf(grid_points[p], p - 1)
        /\ grid_weights # NoneSeq
        /\ Len(grid_weights) = Len(grid_points)
        /\ \A p \in 1..Len(grid_weights) : grid_weights[p] = 1

\* reached: mesh [4,4,4] with divisors [1,1,1]: 64 points, each of weight 1
C14_Witness ==
    /\ last.op = "initialize" /\ last.status = "ok" /\ last.mode = "all"
    /\ mesh = <<4, 4, 4>> /\ mesh_divisors = <<1, 1, 1>>
    /\ grid_points = [p \in 1..64 |-> p - 1]
    /\ grid_weights = [p \in 1..64 |-> 1]

\* the calls in log l made to kernel `prefix` ("ise", "iso" or "pp.")
CallsTo(l, prefix) ==
    {q \in 1..Len(l) : SubSeq(l[q][1], 1, 3) = prefix}

\* the tensors are those _allocate_values creates for the selected points
FreshlyAllocated ==
    LET n == Len(grid_points)
    IN  /\ kappa = Zeros(<<Len(sigmas), n, Len(temperatures)>>)
        /\ gv = Zeros(<<n>>)
        /\ cv = Zeros(<<n, Len(temperatures)>>)
        /\ gamma_iso = Zeros(<<Len(sigmas), n>>)
        /\ ~read_gamma => gamma = Zeros(<<Len(sigmas), n, Len(temperatures)>>)

\* C15: an initialize() that ends normally, from whatever state, leaves the
\* counter and the number of sampling points at 0 and the tensors freshly
\* allocated, has made exactly one set_phonon call, first and with all
\* selected points, and no call to the self-energy or isotope kernel; when
\* set_phonon fails the tensors are allocated already.
C15_InitializeResets ==
    [][last'.op = "initialize" =>
          /\ last'.status = "ok" =>
                 /\ grid_point_count' = 0
                 /\ sum_num_kstar' = 0
                 /\ FreshlyAllocated'
                 /\ klog'[1] = <<"pp.set_phonon", Len(grid_points')>>
                 /\ \A q \in CallsTo(klog', "pp.") :
                        klog'[q][1] = "pp.set_phonon" => q = 1
                 /\ pp_phonon' = grid_points'
                 /\ CallsTo(klog', "ise") = {} /\ CallsTo(klog', "iso") = {}
                 /\ ise' = ise /\ iso' = iso
          /\ last'.status = "KernelError" =>
                 /\ FreshlyAllocated'
                 /\ pp_phonon' = pp_phonon
      ]_vars

\* reached: initialize() ended normally on a driver whose previous selection
\* had been processed (the self-energy kernel holds a result)
C15_Witness ==
    /\ last.op = "initialize" /\ last.status = "ok"
    /\ ise.result # 0
    /\ grid_point_count = 0 /\ sum_num_kstar = 0
    /\ Len(grid_points) = 2
    /\ pp_phonon = grid_points

\* the self-energy calls C16 speaks of, as they appear in log l
LinewidthCalls(l) ==
    SelectSeq(l, LAMBDA e : e[1] \in {"ise.set_sigma", "ise.set_integration_weights",
                                      "ise.set_temperature", "ise.run",
                                      "ise.get_imag_self_energy"})

\* the calls C16 describes for one grid point: per smearing width set_sigma,
\* set_integration_weights for the tetrahedron sentinel only, then per
\* temperature set_temperature, run, get_imag_self_energy
DescribedLinewidthCalls ==
    Concat([jj \in 1..Len(sigmas) |->
        <<<<"ise.set_sigma", sigmas[jj]>>>>
        \o (IF sigmas[jj] = SigmaNone
            THEN <<<<"ise.set_integration_weights", 0>>>>
            ELSE <<>>)
        \o Concat([kk \in 1..Len(temperatures) |->
            <<<<"ise.set_temperature", temperatures[kk]>>,
              <<"ise.run", 0>>,
              <<"ise.get_imag_self_energy", 0>>>>])])

\* C16: when the first point after initialize() has been processed with the
\* linewidths computed, the self-energy calls made for it are the described
\* ones, in the described order.
C16_IntegrationWeightsForSentinelOnly ==
    (/\ init_ok /\ clean /\ ~read_gamma
     /\ last.op = "next" /\ last.status = "ok" /\ grid_point_count = 1) =>
        LinewidthCalls(SubSeq(klog, Len(snap.klog) + 1, Len(klog)))
            = DescribedLinewidthCalls

\* the smearing width and the temperature under which the self-energy kernel
\* produced v (ImagSelfEnergyValue without its grid-point part)
SigmaTempPart(v) ==
    (v - 100000) % 10000

\* array b has the shape of a and its entries outside position i
OthersKept(a, b, i) ==
    /\ b.shape = a.shape
    /\ \A x \in DOMAIN a.data : x[2] # i => b.data[x] = a.data[x]

\* C17: a next() that processes position i (the counter before it) changes
\* gamma and gamma_iso at position i only; the selected points, the weights
\* and the mesh data are unchanged, the counter is i + 1 if the call returned
\* and i if it raised; and after a call that returned, with the linewidths
\* computed, gamma[s, i, t] is the kernel output under sigmas[s] and
\* temperatures[t].
C17_WritesOwnSliceOnly ==
    [][(last'.op = "next" /\ grid_points # NoneSeq /\ grid_point_count # NoneInt) =>
          LET i == grid_point_count
          IN  /\ OthersKept(gamma, gamma', i)
              /\ OthersKept(gamma_iso, gamma_iso', i)
              /\ UNCHANGED <<grid_points, grid_weights, mesh, mesh_divisors,
                             coarse_mesh, coarse_mesh_shifts>>
              /\ grid_point_count' = (IF last'.status = "ok" THEN i + 1 ELSE i)
              /\ (last'.status = "ok" /\ ~read_gamma) =>
                     \A x \in SliceAt(gamma', 1, i) :
                         SigmaTempPart(gamma'.data[x]) =
                             1000 * (sigmas[x[1] + 1] + 2) + temperatures[x[3] + 1]
      ]_vars

\* reached: the second of two points processed, linewidths and isotope
\* linewidths computed for two smearing widths, the first point's entries in
\* place
C17_Witness ==
    /\ init_ok /\ ~read_gamma /\ isotope
    /\ last.op = "next" /\ last.status = "ok" /\ last.value = 1
    /\ Len(sigmas) = 2
    /\ \A x \in DOMAIN gamma.data : gamma.data[x] # 0
    /\ \A x \in DOMAIN gamma_iso.data : gamma_iso.data[x] # 0

\* C18: after a next() that returned position i on a driver with isotope
\* scattering, the isotope kernel is configured with grid_points[i] and
\* gamma_iso[s, i] is its output for that grid point under sigmas[s].
C18_IsotopeAtGridPoint ==
    (init_ok /\ isotope /\ sigmas # <<>> /\ last.op = "next" /\ last.status = "ok") =>
        LET i == last.value
        IN  /\ iso.gp = grid_points[i + 1]
            /\ \A x \in SliceAt(gamma_iso, 1, i) :
                   gamma_iso.data[x] =
                       IsotopeValue(grid_points[i + 1], sigmas[x[1] + 1])

\* C19: an initialize() that ends normally, on a driver never initialized or
\* whose initialize() calls so far ended normally, leaves the weights absent
\* or one per selected grid point.
C19_WeightsMatchSelection ==
    [][(/\ init_ok \/ grid_points = NoneSeq
        /\ last'.op = "initialize" /\ last'.status = "ok") =>
           \/ grid_weights' = NoneSeq
           \/ Len(grid_weights') = Len(grid_points')
      ]_vars

\* C20: a next() on a driver that was never initialized, or whose most recent
\* initialize() aborted, invokes no per-point processing, makes no kernel
\* call and does not return a position.
C20_OnlyAfterInitialize ==
    [][(~init_ok /\ last'.op = "next") =>
           /\ visited' = visited
           /\ klog' = klog
           /\ last'.status # "ok"
      ]_vars

\* the line read_aims scans next
NextLine ==
    aims.lines[aims.nread + 1]

IsConstrainLine(fields) ==
    Len(fields) > 0 /\ fields[1] = "constrain_relaxation"

\* an atom or atom_frac line has been read since the start of the file or, if
\* a constrain_relaxation line has been read, since the latest of them
AtomReadSince ==
    \E j \in 1..aims.nread :
        /\ Len(aims.lines[j]) > 0
        /\ aims.lines[j][1] \in {"atom", "atom_frac"}
        /\ \A k \in (j + 1)..aims.nread : ~IsConstrainLine(aims.lines[k])

\* C21: when read_aims scans a constrain_relaxation line (with its argument), it
\* raises RuntimeError exactly when no atom / atom_frac line has been read since
\* the start of the file or since the previous constrain_relaxation line;
\* otherwise the line is accepted and the list of constraints changes at most
\* at the most recently read atom, which is constrained iff the argument is
\* ".true."
C21_ConstrainRelaxationPlacement ==
    [][(/\ aims.status = "reading"
        /\ aims.nread < Len(aims.lines)
        /\ IsConstrainLine(NextLine)
        /\ Len(NextLine) >= 2)
       => IF ~AtomReadSince
          THEN aims'.status = "RuntimeError"
          ELSE /\ aims'.status = "reading"
               /\ aims'.constraints =
                      [aims.constraints EXCEPT ![Len(aims.constraints)] =
                                                   (NextLine[2] = ".true.")]]_vars

====
